---- MODULE Spec2Model ----
(***************************************************************************)
(* Consultation lifecycle of health-link-aid: the consultations, profiles, *)
(* bank_accounts and notifications tables of the Supabase schema, their   *)
(* row-level security policies and triggers, and the client calls that     *)
(* reach them.                                                             *)
(*                                                                         *)
(* Every request the clients send is one transaction.  An UPDATE is split  *)
(* in two steps, the start of its transaction (when now() is fixed) and    *)
(* the execution of the statement under the row lock, so that two writers  *)
(* of one row can overlap the way READ COMMITTED lets them.                *)
(***************************************************************************)
EXTENDS Integers, Sequences, FiniteSets, TLC

\* ------------------------------------------------------------------ bounds
MaxCons == 1        \* rows of consultations that overlapping updates aim at
MaxBooked == 2      \* rows of consultations
MaxNotifs == 2      \* rows of notifications
MaxInflight == 2    \* UPDATE transactions open at the same time
MaxClock == 2       \* transactions that take a fresh now()
MaxBanks == 2       \* rows of bank_accounts

\* ------------------------------------------------------------------ values
\* SQL NULL of a text column is <<>>, a text value t is <<t>>.
Null == <<>>
Some(t) == <<t>>

\* auth.uid() of a request that carries no session.
NullUid == "null"
Anon == "anon"

\* The identities that can sign up, and the email each one signs up with.
Ids == {"u1", "adm"}
AdminEmail == "omatulemarvellous721@gmail.com"
Email(u) == IF u = "adm" THEN AdminEmail ELSE "u1@example.com"

ConsultationTypes == {"video_call", "phone_call", "chat"}
StatusEnum == {"pending", "approved", "declined", "completed", "cancelled"}
PaymentEnum == {"unpaid", "paid", "refunded"}
RoleEnum == {"user", "admin"}

ConsIds == 1..MaxCons
AllConsIds == 1..MaxBooked
\* bank_account_id NULL is 0; the seeded accounts are 1..4, one is enough here.
NoBank == 0
BankIds == {1}
BankRowIds == 1..MaxBanks

VARIABLES
    users,          \* auth.users: the identities that signed up
    profiles,       \* public.profiles: user_id -> [role]
    consultations,  \* public.consultations: id -> row
    notifications,  \* public.notifications: sequence of rows, in insertion order
    inflight,       \* UPDATE transactions that started and did not run yet
    last,           \* the response to the latest UPDATE that ran
    now,            \* the database clock
    bank_accounts,  \* public.bank_accounts: id -> row
    deleted,        \* the ids of the deleted users and of the deleted consultations
    pages           \* the pages open in the browser tabs: tab -> page state

vars == <<users, profiles, consultations, notifications, inflight, last, now, bank_accounts,
         deleted, pages>>

\* ------------------------------------------------------------ SQL helpers
\* a = b of SQL: NULL on either side is not true.
SqlEq(a, b) == a # NullUid /\ b # NullUid /\ a = b

\* auth.uid(): the id of the session's user, NULL without a session.
auth_uid(actor) == IF actor \in users THEN actor ELSE NullUid

\* a || b of SQL on text|NULL values: NULL if either side is NULL.
Concat(a, b) == IF a = Null \/ b = Null THEN Null ELSE <<a[1] \o b[1]>>

\* COALESCE(a, b)
Coalesce(a, b) == IF a # Null THEN a ELSE b

\* --------------------------------------------------------------- profiles
\* handle_new_user: the role of the profile created for a new auth.users row.
handle_new_user(u) == [role |-> IF Email(u) = AdminEmail THEN "admin" ELSE "user"]

\* Mutant of get_current_user_role: the COALESCE falls back to 'admin'.
get_current_user_role_DefaultAdmin(uid) ==
    IF \E p \in DOMAIN profiles : SqlEq(p, uid) THEN profiles[uid].role ELSE "admin"

\* get_current_user_role(): COALESCE((SELECT role ... WHERE user_id = auth.uid()), 'user')
get_current_user_role(uid) ==
    IF \E p \in DOMAIN profiles : SqlEq(p, uid) THEN profiles[uid].role ELSE "user"

\* policy "Users can update their own profile": USING (auth.uid() = user_id)
UsersCanViewOwnProfile(uid, target) == SqlEq(uid, target)

UsersCanUpdateOwnProfile(uid, target) == SqlEq(uid, target)

\* ---------------------------------------------------------- consultations
\* policy "Users can view their own consultations"
UsersCanViewOwnConsultations(uid, row) == SqlEq(uid, row.user_id)

\* policy "Admins can view all consultations"
AdminsCanViewAllConsultations(uid, row) == get_current_user_role(uid) = "admin"

\* Mutant of the INSERT policy: any session may insert any row.
UsersCanCreateOwnConsultations_AnySession(uid, row) == uid # NullUid

\* policy "Users can create their own consultations": WITH CHECK (auth.uid() = user_id)
UsersCanCreateOwnConsultations(uid, row) == SqlEq(uid, row.user_id)

\* Mutant of the owner's UPDATE policy: any session may update any row.
UsersCanUpdateOwnConsultations_AnySession(uid, row) == uid # NullUid

\* policy "Users can update their own consultations"
UsersCanUpdateOwnConsultations(uid, row) == SqlEq(uid, row.user_id)

\* policy "Admins can update all consultations"
AdminsCanUpdateAllConsultations(uid, row) == get_current_user_role(uid) = "admin"

\* Mutant of the DELETE policies: owners may delete their consultations.
ConsultationsDeletePolicy_Owner(uid, row) == SqlEq(uid, row.user_id)

\* consultations has row-level security enabled and no policy FOR DELETE (or
\* FOR ALL): no row passes.
ConsultationsDeletePolicy(uid, row) == FALSE

\* Permissive policies of one command are OR-ed.
ConsultationsSelectPolicy(uid, row) ==
    UsersCanViewOwnConsultations(uid, row) \/ AdminsCanViewAllConsultations(uid, row)

ConsultationsUpdatePolicy(uid, row) ==
    UsersCanUpdateOwnConsultations(uid, row) \/ AdminsCanUpdateAllConsultations(uid, row)

\* The column defaults of CREATE TABLE consultations.
ConsultationDefaults ==
    [status |-> "pending", payment_status |-> "unpaid", amount |-> 50,
     bank_account_id |-> NoBank, admin_notes |-> Null]

\* Mutant of the table's constraints: the CHECK of status is missing.
ConsultationConstraints_NoStatusCheck(row) ==
    /\ row.user_id \in users
    /\ row.consultation_type \in ConsultationTypes
    /\ row.payment_status \in PaymentEnum

\* The CHECK, NOT NULL and foreign-key constraints of a consultations row.
ConsultationConstraints(row) ==
    /\ row.user_id \in users
    /\ row.consultation_type \in ConsultationTypes
    /\ row.status \in StatusEnum
    /\ row.payment_status \in PaymentEnum

\* Payment.getConsultationTypeAmount: amounts[type] || 50
getConsultationTypeAmount(type) ==
    IF type = "video_call" THEN 50
    ELSE IF type = "phone_call" THEN 40
    ELSE IF type = "chat" THEN 30
    ELSE 50

\* new row of INSERT: the payload's columns over the defaults.
\* new row of UPDATE ... SET: the payload's columns over the old row.
Overlay(row, payload) ==
    [f \in DOMAIN row \cup DOMAIN payload |-> IF f \in DOMAIN payload THEN payload[f] ELSE row[f]]

\* update_updated_at_column (BEFORE UPDATE): NEW.updated_at = now(), the
\* start time of the transaction.
update_updated_at_column(new, txnStart) == [new EXCEPT !.updated_at = txnStart]

\* ---------------------------------------------------------- bank_accounts
\* Mutant of the SELECT policy: the test of is_active is lost.
AuthenticatedUsersCanViewActiveBankAccounts_Any(uid, row) == uid # NullUid

\* policy "Authenticated users can view active bank accounts":
\* FOR SELECT TO authenticated USING (is_active = true)
AuthenticatedUsersCanViewActiveBankAccounts(uid, row) == uid # NullUid /\ row.is_active

\* Mutant of the admin policy: every session may manage bank accounts.
AdminsCanManageBankAccounts_AnySession(uid, row) == uid # NullUid

\* policy "Admins can manage bank accounts": FOR ALL USING (role = 'admin');
\* with no WITH CHECK, the USING expression also checks the new rows.
AdminsCanManageBankAccounts(uid, row) == get_current_user_role(uid) = "admin"

BankAccountsSelectPolicy(uid, row) ==
    AuthenticatedUsersCanViewActiveBankAccounts(uid, row) \/ AdminsCanManageBankAccounts(uid, row)

\* The column defaults of CREATE TABLE bank_accounts.
BankAccountDefaults == [is_active |-> TRUE]

\* ---------------------------------------------------------- notifications
\* policy "System can insert notifications": FOR INSERT WITH CHECK (true)
SystemCanInsertNotifications(uid, row) == TRUE

\* policy "Users can view their own notifications": USING (auth.uid() = user_id)
UsersCanViewOwnNotifications(uid, row) == SqlEq(uid, row.user_id)

\* Mutant of the notifications UPDATE policy: admins are let in as well.
UsersCanUpdateOwnNotifications_OrAdmin(uid, row) ==
    SqlEq(uid, row.user_id) \/ get_current_user_role(uid) = "admin"

\* policy "Users can update their own notifications": USING (auth.uid() = user_id)
UsersCanUpdateOwnNotifications(uid, row) == SqlEq(uid, row.user_id)

\* The NOT NULL and foreign-key constraints of a notifications row
\* (consultation_id NULL is 0).
NotificationConstraints(row) ==
    /\ row.user_id \in users
    /\ row.consultation_id = 0 \/ row.consultation_id \in DOMAIN consultations
    /\ row.title # Null
    /\ row.message # Null

\* Mutant of the trigger's condition: the test NEW.status != OLD.status is lost.
StatusChangeNotifies_AnyWrite(old, new) == new.status \in {"approved", "declined"}

\* IF NEW.status != OLD.status AND NEW.status IN ('approved', 'declined')
StatusChangeNotifies(old, new) ==
    new.status # old.status /\ new.status \in {"approved", "declined"}

\* Mutant of the title CASE: the branch of declined is lost to approved's.
NotificationTitle_OneBranch(new) ==
    IF new.status \in {"approved", "declined"} THEN Some("Consultation Approved U+2705")
    ELSE Null

\* The title CASE.  The source's titles end in an emoji, written here by its
\* code point.
NotificationTitle(new) ==
    IF new.status = "approved" THEN Some("Consultation Approved U+2705")
    ELSE IF new.status = "declined" THEN Some("Consultation Declined U+274C")
    ELSE Null

ApprovedMessage == "Your consultation request has been approved! You will receive further details soon."
DeclinedMessage == "Your consultation request has been declined. "
ReasonPrefix == "Reason: "
ContactSupport == "Please contact support for more information."

\* The message CASE.
NotificationMessage(new) ==
    IF new.status = "approved" THEN Some(ApprovedMessage)
    ELSE IF new.status = "declined"
         THEN Concat(Some(DeclinedMessage),
                     Coalesce(Concat(Some(ReasonPrefix), new.admin_notes), Some(ContactSupport)))
    ELSE Null

\* Mutant of the trigger function: every change of status notifies, the
\* CASEs falling back to a generic title and message.
notify_consultation_status_change_AnyChange(id, old, new) ==
    IF new.status # old.status
    THEN <<[user_id |-> new.user_id, consultation_id |-> id,
            title |-> Coalesce(NotificationTitle(new), Some("Consultation Updated")),
            message |-> Coalesce(NotificationMessage(new), Some("Your consultation was updated.")),
            is_read |-> FALSE]>>
    ELSE <<>>

\* notify_consultation_status_change (AFTER UPDATE, FOR EACH ROW): the rows it
\* inserts into notifications.
notify_consultation_status_change(id, old, new) ==
    IF StatusChangeNotifies(old, new)
    THEN <<[user_id |-> new.user_id, consultation_id |-> id,
            title |-> NotificationTitle(new), message |-> NotificationMessage(new),
            is_read |-> FALSE]>>
    ELSE <<>>

\* --------------------------------------------------------------- requests
\* What the clients send.  The booking form sends user_id and the form's
\* fields and never an amount; any caller of the REST interface can send more.
FormData == [consultation_type : ConsultationTypes]

InsertPayloads ==
    [user_id : Ids, consultation_type : ConsultationTypes]
    \cup [user_id : Ids, consultation_type : {"chat"}, amount : {75, -5}]
    \cup [user_id : Ids, consultation_type : {"chat"}, status : {"archived"}]

\* Inserts that state the columns the booking form leaves to their defaults.
RestInsertPayloads ==
    InsertPayloads
    \cup [user_id : Ids, consultation_type : {"chat"}, status : {"approved"}]
    \cup [user_id : Ids, consultation_type : {"chat"}, payment_status : {"paid"}]

\* The admin dashboard sends status and admin_notes (the notes box, '' when
\* left blank), the payment page payment_status and bank_account_id; any
\* caller of the REST interface can send any columns.
UpdatePayloads ==
    [status : StatusEnum]
    \cup [status : {"approved", "declined"}, admin_notes : {Some(""), Some("schedule conflict")}]
    \cup [payment_status : {"paid"}, bank_account_id : BankIds]
    \cup [user_id : Ids]
    \cup [status : {"archived"}] \cup [payment_status : {"void"}]
    \cup [amount : {-5}]

\* What a caller of the REST interface can insert into notifications.
NotificationPayloads ==
    [user_id : Ids, consultation_id : {0},
     title : {Some("Consultation Approved U+2705")}, message : {Some(ApprovedMessage)}]

\* What a caller of the REST interface can set on a notification: the read
\* mark, or another owner.
\* Updates of payment_status alone, as any caller of the REST interface can
\* send them, next to the payment page's update.
PaymentUpdatePayloads ==
    [payment_status : {"unpaid", "paid", "refunded"}]
    \cup [payment_status : {"paid"}, bank_account_id : BankIds]

RestUpdatePayloads == UpdatePayloads \cup PaymentUpdatePayloads

NotificationUpdatePayloads == [is_read : BOOLEAN] \cup [user_id : Ids]

\* What a caller of the REST interface can insert into and set on
\* bank_accounts, and the filters a read can carry (Payment.fetchData reads
\* with is_active = true).
BankInsertPayloads ==
    [bank_name : {"Test Bank"}] \cup [bank_name : {"Test Bank"}, is_active : {FALSE}]

BankUpdatePayloads == [is_active : BOOLEAN] \cup [bank_name : {"Other Bank"}]

BankFilters == {"none", "is_active = true", "is_active = false"}

Matches(filter, row) ==
    IF filter = "is_active = true" THEN row.is_active
    ELSE IF filter = "is_active = false" THEN ~row.is_active
    ELSE TRUE

Actors == users \cup {Anon}

\* A write request, and the response to it once it ran: the rows it affected
\* and the error it raised.  seen is the status the row had when the request
\* was sent.
Request(kind, actor, target, payload, issuedAt, seen) ==
    [kind |-> kind, actor |-> actor, target |-> target, payload |-> payload,
     issuedAt |-> issuedAt, seen |-> seen, executedAt |-> 0, rows |-> {}, err |-> "none"]

Response(r, rows, err) == [r EXCEPT !.executedAt = now, !.rows = rows, !.err = err]

\* No row: the NULL of an id.
MissingRow == NoBank

NoRequest == Request("none", Anon, 0, [id |-> 0], 0, "none")

\* The browser tabs, and a tab that shows none of the pages.  A page's state
\* is its useState values: user is useAuth().user (Anon for null), list the
\* rows it fetched (id -> row), banks the bank accounts it fetched, sent the
\* update it sent (then the response to it); pc is where its asynchronous
\* work stands; chosen is the consultation whose button the owner pressed
\* to get to the page.
PageIds == {"tab1", "tab2"}

NoPage ==
    [kind |-> "none", user |-> Anon, pc |-> "closed", loading |-> FALSE, isAdmin |-> FALSE,
     list |-> <<>>, banks |-> {}, chosen |-> MissingRow, sent |-> NoRequest,
     paymentConfirmed |-> FALSE]

\* gen_random_uuid(): the ids no consultation has or had.  They are handed
\* out in increasing order, so a larger id is a later created_at.
FreshConsIds == AllConsIds \ (DOMAIN consultations \cup deleted.consultations)

\* Fewer than n consultations were created so far.
Booked(n) == Cardinality(DOMAIN consultations \cup deleted.consultations) < n

StatusOf(id) == IF id \in DOMAIN consultations THEN consultations[id].status ELSE "none"

\* ------------------------------------------------------------------ reads
\* SELECT * FROM consultations WHERE id = target, sent by actor: the ids of
\* the rows returned.
SelectConsultation(actor, target) ==
    {c \in DOMAIN consultations :
        c = target /\ ConsultationsSelectPolicy(auth_uid(actor), consultations[c])}

\* SELECT role FROM profiles WHERE user_id = actor, sent by actor: the
\* user_ids of the rows returned.
SelectProfile(actor) ==
    {u \in DOMAIN profiles : u = actor /\ UsersCanViewOwnProfile(auth_uid(actor), u)}

\* SELECT * FROM consultations, sent by actor: the rows returned, by id.
SelectConsultations(actor) ==
    LET ids == {c \in DOMAIN consultations :
                  ConsultationsSelectPolicy(auth_uid(actor), consultations[c])}
    IN [c \in ids |-> consultations[c]]

\* SELECT * FROM notifications WHERE id = target, sent by actor: the rows
\* returned (a notification's id is its position).
SelectNotification(actor, target) ==
    {n \in 1..Len(notifications) :
        n = target /\ UsersCanViewOwnNotifications(auth_uid(actor), notifications[n])}

\* SELECT * FROM bank_accounts WHERE filter, sent by actor: the ids of the
\* rows returned.
SelectBankAccounts(actor, filter) ==
    {b \in DOMAIN bank_accounts :
        Matches(filter, bank_accounts[b]) /\ BankAccountsSelectPolicy(auth_uid(actor), bank_accounts[b])}

\* ---------------------------------------------------------------- actions
Init ==
    /\ users = {}
    /\ profiles = [u \in {} |-> [role |-> "user"]]
    /\ consultations = [c \in {} |-> 0]
    /\ notifications = <<>>
    /\ inflight = {}
    /\ last = NoRequest
    /\ now = 0
    /\ deleted = [users |-> {}, consultations |-> {}]
    /\ pages = [p \in PageIds |-> NoPage]
    /\ bank_accounts = [b \in BankIds |-> BankAccountDefaults @@ [bank_name |-> "Wells Fargo"]]

\* A new row of auth.users; the trigger on_auth_user_created runs handle_new_user.
SignUp(u) ==
    /\ u \notin users \cup deleted.users
    /\ users' = users \cup {u}
    /\ profiles' = [p \in DOMAIN profiles \cup {u} |-> IF p = u THEN handle_new_user(u) ELSE profiles[p]]
    /\ UNCHANGED <<deleted, pages, bank_accounts, consultations, notifications, inflight, last, now>>

\* UPDATE profiles SET role = r WHERE user_id = target, sent by actor.
UpdateProfile(actor, target, r) ==
    /\ actor \in Actors
    /\ target \in DOMAIN profiles
    /\ r \in RoleEnum
    /\ profiles' = IF UsersCanUpdateOwnProfile(auth_uid(actor), target)
                   THEN [profiles EXCEPT ![target].role = r]
                   ELSE profiles
    /\ UNCHANGED <<deleted, pages, bank_accounts, users, consultations, notifications, inflight, last, now>>

\* INSERT INTO consultations with the columns of payload, sent by actor: one
\* statement in its own transaction.  The new row passes the policy's WITH
\* CHECK, then the table's constraints.
InsertConsultation(actor, payload) ==
    /\ actor \in Actors
    /\ FreshConsIds # {}
    /\ LET id == CHOOSE c \in FreshConsIds : \A o \in FreshConsIds : c <= o
           row == Overlay(ConsultationDefaults @@ [updated_at |-> now], payload)
           r == Request("insert", actor, id, payload, now, "none")
       IN IF ~UsersCanCreateOwnConsultations(auth_uid(actor), row)
          THEN consultations' = consultations /\ last' = Response(r, {}, "rls")
          ELSE IF ~ConsultationConstraints(row)
          THEN consultations' = consultations /\ last' = Response(r, {}, "constraint")
          ELSE /\ consultations' = [c \in DOMAIN consultations \cup {id} |->
                                      IF c = id THEN row ELSE consultations[c]]
               /\ last' = Response(r, {id}, "none")
    /\ UNCHANGED <<deleted, pages, bank_accounts, users, profiles, notifications, inflight, now>>

\* Mutant of BookConsultation.handleSubmit: the test of user is lost and the
\* insert is sent without a session.
BookConsultation_NoUserTest(actor, formData) ==
    /\ formData \in FormData
    /\ InsertConsultation(actor, [user_id |-> actor] @@ formData)

\* BookConsultation.handleSubmit: without a user it returns and nothing is
\* sent; with one, the insert carries user_id: user.id and the form's fields.
BookConsultation(actor, formData) ==
    /\ formData \in FormData
    /\ IF actor \notin users
       THEN UNCHANGED vars
       ELSE InsertConsultation(actor, [user_id |-> actor] @@ formData)

\* The transaction of UPDATE consultations SET payload WHERE id = target
\* starts: now() is fixed for it.
IssueUpdate(actor, target, payload) ==
    /\ actor \in Actors
    /\ target \in AllConsIds
    /\ payload \in RestUpdatePayloads
    /\ Cardinality(inflight) < MaxInflight
    /\ now < MaxClock
    /\ now' = now + 1
    /\ inflight' = inflight \cup {Request("update", actor, target, payload, now + 1, StatusOf(target))}
    /\ UNCHANGED <<deleted, pages, bank_accounts, users, profiles, consultations, notifications, last>>

\* The transaction of an UPDATE ends in an error: nothing it wrote remains.
Rollback(err) ==
    [rows |-> {}, err |-> err, cons |-> consultations, notifs |-> notifications]

\* Mutant of the trigger: an INSERT that raises is swallowed, the update stays.
consultation_status_notification_Swallow(id, old, new, insertFails) ==
    LET emitted == notify_consultation_status_change(id, old, new)
        kept == IF insertFails \/ (emitted # <<>> /\ ~NotificationConstraints(emitted[1]))
                THEN <<>> ELSE emitted
    IN [rows |-> {id}, err |-> IF kept = emitted THEN "none" ELSE "trigger",
        cons |-> [consultations EXCEPT ![id] = new],
        notifs |-> notifications \o kept]

\* trigger consultation_status_notification (AFTER UPDATE, FOR EACH ROW) on
\* the row id that the statement changed from old to new: the function's
\* INSERT runs in the statement's transaction and the function handles no
\* exception, so an INSERT that raises (insertFails, or a constraint of
\* notifications) ends the whole transaction in an error.
consultation_status_notification(id, old, new, insertFails) ==
    LET emitted == notify_consultation_status_change(id, old, new)
    IN IF emitted # <<>> /\ (insertFails \/ ~NotificationConstraints(emitted[1]))
       THEN Rollback("trigger")
       ELSE [rows |-> {id}, err |-> "none",
             cons |-> [consultations EXCEPT ![id] = new],
             notifs |-> notifications \o emitted]

\* Mutant of the UPDATE: a row that fails the USING policies raises a
\* permission error instead of being filtered out.
UpdateOutcome_DeniedRaises(r, insertFails) ==
    LET uid == auth_uid(r.actor)
        noRow == [rows |-> {}, err |-> "none", cons |-> consultations, notifs |-> notifications]
    IN IF r.target \notin DOMAIN consultations THEN noRow
       ELSE LET old == consultations[r.target]
                new == update_updated_at_column(Overlay(old, r.payload), r.issuedAt)
            IN IF ~ConsultationsUpdatePolicy(uid, old) THEN Rollback("rls")
               ELSE IF ~ConsultationsUpdatePolicy(uid, new) THEN Rollback("rls")
               ELSE IF ~ConsultationConstraints(new) THEN Rollback("constraint")
               ELSE consultation_status_notification(r.target, old, new, insertFails)

\* The outcome of the UPDATE of request r, run against the current rows:
\* [rows, err, cons, notifs].  In order: the row is looked up, the USING
\* policies filter it, the BEFORE trigger sets updated_at, the new row passes
\* the policies' implicit WITH CHECK and the table's constraints, the AFTER
\* trigger runs.
UpdateOutcome(r, insertFails) ==
    LET uid == auth_uid(r.actor)
        noRow == [rows |-> {}, err |-> "none", cons |-> consultations, notifs |-> notifications]
    IN IF r.target \notin DOMAIN consultations THEN noRow
       ELSE LET old == consultations[r.target]
                new == update_updated_at_column(Overlay(old, r.payload), r.issuedAt)
            IN IF ~ConsultationsUpdatePolicy(uid, old) THEN noRow
               ELSE IF ~ConsultationsUpdatePolicy(uid, new) THEN Rollback("rls")
               ELSE IF ~ConsultationConstraints(new) THEN Rollback("constraint")
               ELSE consultation_status_notification(r.target, old, new, insertFails)

\* The UPDATE of an open transaction runs and the transaction ends.
ExecuteUpdate(r, insertFails) ==
    /\ r \in inflight
    /\ LET out == UpdateOutcome(r, insertFails)
       IN /\ Len(out.notifs) <= MaxNotifs
          /\ consultations' = out.cons
          /\ notifications' = out.notifs
          /\ last' = Response(r, out.rows, out.err)
          /\ pages' = [p \in PageIds |->
                          IF pages[p].sent = r
                          THEN [pages[p] EXCEPT !.sent = Response(r, out.rows, out.err),
                                                !.pc = "responded"]
                          ELSE pages[p]]
    /\ inflight' = inflight \ {r}
    /\ UNCHANGED <<deleted, bank_accounts, users, profiles, now>>

\* INSERT INTO notifications sent by actor.
InsertNotification(actor, payload) ==
    /\ actor \in Actors
    /\ payload \in NotificationPayloads
    /\ Len(notifications) < MaxNotifs
    /\ LET row == Overlay([is_read |-> FALSE], payload)
       IN notifications' =
            IF SystemCanInsertNotifications(auth_uid(actor), row) /\ NotificationConstraints(row)
            THEN Append(notifications, row)
            ELSE notifications
    /\ UNCHANGED <<deleted, pages, bank_accounts, users, profiles, consultations, inflight, last, now>>

\* UPDATE notifications SET payload WHERE id = target, sent by actor: one
\* statement in its own transaction.  The USING policy filters the row and
\* is the implicit WITH CHECK of the new row.
UpdateNotification(actor, target, payload) ==
    /\ actor \in Actors
    /\ target \in 1..MaxNotifs
    /\ payload \in NotificationUpdatePayloads
    /\ LET uid == auth_uid(actor)
           r == Request("update_notification", actor, target, payload, now, "none")
       IN IF target \notin 1..Len(notifications)
             \/ ~UsersCanUpdateOwnNotifications(uid, notifications[target])
          THEN notifications' = notifications /\ last' = Response(r, {}, "none")
          ELSE LET new == Overlay(notifications[target], payload)
               IN IF ~UsersCanUpdateOwnNotifications(uid, new)
                  THEN notifications' = notifications /\ last' = Response(r, {}, "rls")
                  ELSE IF ~NotificationConstraints(new)
                  THEN notifications' = notifications /\ last' = Response(r, {}, "constraint")
                  ELSE /\ notifications' = [notifications EXCEPT ![target] = new]
                       /\ last' = Response(r, {target}, "none")
    /\ UNCHANGED <<deleted, pages, bank_accounts, users, profiles, consultations, inflight, now>>

\* INSERT INTO bank_accounts with the columns of payload, sent by actor.
InsertBankAccount(actor, payload) ==
    /\ actor \in Actors
    /\ payload \in BankInsertPayloads
    /\ BankRowIds \ DOMAIN bank_accounts # {}
    /\ LET id == CHOOSE b \in BankRowIds \ DOMAIN bank_accounts :
                    \A o \in BankRowIds \ DOMAIN bank_accounts : b <= o
           row == Overlay(BankAccountDefaults, payload)
           r == Request("insert_bank_account", actor, id, payload, now, "none")
       IN IF ~AdminsCanManageBankAccounts(auth_uid(actor), row)
          THEN bank_accounts' = bank_accounts /\ last' = Response(r, {}, "rls")
          ELSE /\ bank_accounts' = [b \in DOMAIN bank_accounts \cup {id} |->
                                      IF b = id THEN row ELSE bank_accounts[b]]
               /\ last' = Response(r, {id}, "none")
    /\ UNCHANGED <<deleted, pages, users, profiles, consultations, notifications, inflight, now>>

\* UPDATE bank_accounts SET payload WHERE id = target, sent by actor.
UpdateBankAccount(actor, target, payload) ==
    /\ actor \in Actors
    /\ target \in BankRowIds
    /\ payload \in BankUpdatePayloads
    /\ LET uid == auth_uid(actor)
           r == Request("update_bank_account", actor, target, payload, now, "none")
       IN IF target \notin DOMAIN bank_accounts
             \/ ~AdminsCanManageBankAccounts(uid, bank_accounts[target])
          THEN bank_accounts' = bank_accounts /\ last' = Response(r, {}, "none")
          ELSE LET new == Overlay(bank_accounts[target], payload)
               IN IF ~AdminsCanManageBankAccounts(uid, new)
                  THEN bank_accounts' = bank_accounts /\ last' = Response(r, {}, "rls")
                  ELSE /\ bank_accounts' = [bank_accounts EXCEPT ![target] = new]
                       /\ last' = Response(r, {target}, "none")
    /\ UNCHANGED <<deleted, pages, users, profiles, consultations, notifications, inflight, now>>

\* DELETE FROM bank_accounts WHERE id = target, sent by actor
\* (consultations.bank_account_id is no foreign key: nothing cascades).
DeleteBankAccount(actor, target) ==
    /\ actor \in Actors
    /\ target \in BankRowIds
    /\ LET r == Request("delete_bank_account", actor, target, [id |-> target], now, "none")
       IN IF target \notin DOMAIN bank_accounts
             \/ ~AdminsCanManageBankAccounts(auth_uid(actor), bank_accounts[target])
          THEN bank_accounts' = bank_accounts /\ last' = Response(r, {}, "none")
          ELSE /\ bank_accounts' = [b \in DOMAIN bank_accounts \ {target} |-> bank_accounts[b]]
               /\ last' = Response(r, {target}, "none")
    /\ UNCHANGED <<deleted, pages, users, profiles, consultations, notifications, inflight, now>>

\* The rows of notifications that remain when the users gone and the
\* consultations gone are deleted (both foreign keys are ON DELETE CASCADE).
CascadeNotifications(usersGone, consGone) ==
    LET Stays(n) == n.user_id \notin usersGone /\ n.consultation_id \notin consGone
    IN SelectSeq(notifications, Stays)

\* DELETE FROM consultations WHERE id = target, sent by actor.
DeleteConsultation(actor, target) ==
    /\ actor \in Actors
    /\ target \in AllConsIds
    /\ LET gone == {c \in DOMAIN consultations :
                       c = target /\ ConsultationsDeletePolicy(auth_uid(actor), consultations[c])}
           r == Request("delete_consultation", actor, target, [id |-> target], now, StatusOf(target))
       IN /\ consultations' = [c \in DOMAIN consultations \ gone |-> consultations[c]]
          /\ notifications' = CascadeNotifications({}, gone)
          /\ deleted' = [deleted EXCEPT !.consultations = @ \cup gone]
          /\ last' = Response(r, gone, "none")
    /\ UNCHANGED <<users, profiles, inflight, now, bank_accounts, pages>>

\* The row u of auth.users is deleted (by the project's owner; no page does
\* it): the profile, the consultations and the notifications that reference
\* it go with it.
DeleteUser(u) ==
    /\ u \in users
    /\ LET gone == {c \in DOMAIN consultations : consultations[c].user_id = u}
       IN /\ users' = users \ {u}
          /\ profiles' = [p \in DOMAIN profiles \ {u} |-> profiles[p]]
          /\ consultations' = [c \in DOMAIN consultations \ gone |-> consultations[c]]
          /\ notifications' = CascadeNotifications({u}, gone)
          /\ deleted' = [users |-> deleted.users \cup {u},
                         consultations |-> deleted.consultations \cup gone]
    /\ UNCHANGED <<inflight, last, now, bank_accounts, pages>>

\* ------------------------------------------------------- admin dashboard
\* The page is opened in tab p with user u signed in (Anon: nobody).  The
\* state is the initial one; the effect starts checkAdminAccess if there is
\* a user.
OpenAdminDashboard(p, u) ==
    /\ pages[p].kind = "none"
    /\ u \in Actors
    /\ pages' = [pages EXCEPT ![p] =
                    [NoPage EXCEPT !.kind = "AdminDashboard", !.user = u, !.loading = TRUE,
                                   !.pc = IF u # Anon THEN "checking" ELSE "idle"]]
    /\ UNCHANGED <<users, profiles, consultations, notifications, inflight, last, now,
                   bank_accounts, deleted>>

\* Mutant of checkAdminAccess: the test of the role is lost.
checkAdminAccess_NoRoleTest(p, readFails) ==
    /\ pages[p].kind = "AdminDashboard" /\ pages[p].pc = "checking"
    /\ pages' = [pages EXCEPT ![p] = [@ EXCEPT !.isAdmin = TRUE, !.pc = "fetching"]]
    /\ UNCHANGED <<users, profiles, consultations, notifications, inflight, last, now,
                   bank_accounts, deleted>>

\* checkAdminAccess up to its await of fetchAdminData: the profile is read
\* (.single() is an error unless exactly one row comes back; readFails is
\* any other failure of the request).  With role admin isAdmin is set and
\* fetchAdminData starts; otherwise, and on an error, isAdmin is set to false
\* and the finally block clears loading.
checkAdminAccess(p, readFails) ==
    /\ pages[p].kind = "AdminDashboard" /\ pages[p].pc = "checking"
    /\ LET rows == SelectProfile(pages[p].user)
           error == readFails \/ Cardinality(rows) # 1
       IN pages' = [pages EXCEPT ![p] =
                       IF ~error /\ profiles[pages[p].user].role = "admin"
                       THEN [@ EXCEPT !.isAdmin = TRUE, !.pc = "fetching"]
                       ELSE [@ EXCEPT !.isAdmin = FALSE, !.loading = FALSE, !.pc = "idle"]]
    /\ UNCHANGED <<users, profiles, consultations, notifications, inflight, last, now,
                   bank_accounts, deleted>>

\* fetchAdminData, and what follows its return in the caller: the list is
\* replaced by the rows the select returns (kept on an error, which the
\* function catches); checkAdminAccess then clears loading,
\* updateConsultationStatus clears actionLoading.
fetchAdminData(p, fetchFails) ==
    /\ pages[p].kind = "AdminDashboard" /\ pages[p].pc \in {"fetching", "refetching"}
    /\ pages' = [pages EXCEPT ![p] =
                    [@ EXCEPT !.list = IF fetchFails THEN @ ELSE SelectConsultations(pages[p].user),
                              !.loading = FALSE, !.pc = "idle"]]
    /\ UNCHANGED <<users, profiles, consultations, notifications, inflight, last, now,
                   bank_accounts, deleted>>

\* updateConsultationStatus up to its await of the update.  The page renders
\* the dashboard only with loading false and isAdmin true, the Approve and
\* Decline buttons only for a consultation of the list whose status in the
\* list is pending, and disables them while an action is under way.  The
\* update filters on the id alone; adminNotes is '' unless typed.
updateConsultationStatus(p, consultationId, newStatus) ==
    /\ pages[p].kind = "AdminDashboard" /\ pages[p].pc = "idle"
    /\ ~pages[p].loading /\ pages[p].isAdmin
    /\ consultationId \in DOMAIN pages[p].list
    /\ pages[p].list[consultationId].status = "pending"
    /\ newStatus \in {"approved", "declined"}
    /\ Cardinality(inflight) < MaxInflight
    /\ now < MaxClock
    /\ LET r == Request("update", pages[p].user, consultationId,
                        [status |-> newStatus, admin_notes |-> Some("")],
                        now + 1, StatusOf(consultationId))
       IN /\ inflight' = inflight \cup {r}
          /\ pages' = [pages EXCEPT ![p] = [@ EXCEPT !.sent = r, !.pc = "updating"]]
    /\ now' = now + 1
    /\ UNCHANGED <<users, profiles, consultations, notifications, last, bank_accounts, deleted>>

\* updateConsultationStatus after the response: without an error it awaits
\* fetchAdminData, with one it shows the toast and clears actionLoading.
updateConsultationStatus_then(p) ==
    /\ pages[p].kind = "AdminDashboard" /\ pages[p].pc = "responded"
    /\ pages' = [pages EXCEPT ![p] =
                    [@ EXCEPT !.pc = IF pages[p].sent.err = "none" THEN "refetching" ELSE "idle"]]
    /\ UNCHANGED <<users, profiles, consultations, notifications, inflight, last, now,
                   bank_accounts, deleted>>

\* --------------------------------------------------- dashboard and payment
\* What a Dashboard or Payment page shows: the guards of the render, in the
\* order of the code.
View(p) ==
    IF pages[p].loading THEN "spinner"
    ELSE IF pages[p].user = Anon THEN "Authentication Required"
    ELSE IF pages[p].kind = "Payment" /\ pages[p].paymentConfirmed THEN "Payment Confirmed"
    ELSE "content"

\* A Dashboard or Payment page as it mounts for user u: loading is true, and
\* the effect starts the fetch if there is a user.
Mounted(kind, u, chosen) ==
    [NoPage EXCEPT !.kind = kind, !.user = u, !.loading = TRUE, !.chosen = chosen,
                   !.pc = IF u # Anon THEN "fetching" ELSE "idle"]

\* The Dashboard is opened in tab p with user u signed in (Anon: nobody).
OpenDashboard(p, u) ==
    /\ pages[p].kind = "none"
    /\ u \in Actors
    /\ pages' = [pages EXCEPT ![p] = Mounted("Dashboard", u, MissingRow)]
    /\ UNCHANGED <<users, profiles, consultations, notifications, inflight, last, now,
                   bank_accounts, deleted>>

\* The Payment page is opened in tab p by its address.
OpenPayment(p, u) ==
    /\ pages[p].kind = "none"
    /\ u \in Actors
    /\ pages' = [pages EXCEPT ![p] = Mounted("Payment", u, MissingRow)]
    /\ UNCHANGED <<users, profiles, consultations, notifications, inflight, last, now,
                   bank_accounts, deleted>>

\* SELECT * FROM consultations WHERE user_id = actor, sent by actor.
OwnConsultations(actor) ==
    LET all == SelectConsultations(actor)
    IN [c \in {d \in DOMAIN all : all[d].user_id = actor} |-> all[c]]

\* Dashboard.fetchUserData: the profile is read (.single()), then the user's
\* consultations; an error of either leaves the list empty; finally loading
\* is cleared.
fetchUserData(p, fetchFails) ==
    /\ pages[p].kind = "Dashboard" /\ pages[p].pc = "fetching"
    /\ LET error == fetchFails \/ Cardinality(SelectProfile(pages[p].user)) # 1
       IN pages' = [pages EXCEPT ![p] =
                       [@ EXCEPT !.list = IF error THEN @ ELSE OwnConsultations(pages[p].user),
                                 !.loading = FALSE, !.pc = "idle"]]
    /\ UNCHANGED <<users, profiles, consultations, notifications, inflight, last, now,
                   bank_accounts, deleted>>

\* The Complete Payment button of consultation c in the Dashboard's list,
\* shown when c is pending and unpaid in the list: navigate('/payment').
\* The Payment page mounts; the route carries nothing of c, which is kept
\* here in chosen for the properties only.
CompletePayment(p, c) ==
    /\ pages[p].kind = "Dashboard" /\ View(p) = "content"
    /\ c \in DOMAIN pages[p].list
    /\ pages[p].list[c].status = "pending" /\ pages[p].list[c].payment_status = "unpaid"
    /\ pages' = [pages EXCEPT ![p] = Mounted("Payment", pages[p].user, c)]
    /\ UNCHANGED <<users, profiles, consultations, notifications, inflight, last, now,
                   bank_accounts, deleted>>

\* The user's unpaid consultations ORDER BY created_at DESC LIMIT 1: rows are
\* created one after another and ids are handed out in that order, so the
\* latest is the one of the greatest id.
LatestUnpaid(actor) ==
    LET own == OwnConsultations(actor)
        unpaid == {c \in DOMAIN own : own[c].payment_status = "unpaid"}
    IN {c \in unpaid : \A d \in unpaid : d <= c}

\* Payment.fetchData: the active bank accounts, then the latest unpaid
\* consultation of the user; without one the page leaves for the booking
\* form; an error leaves the page without a consultation; finally loading is
\* cleared.
fetchData(p, fetchFails) ==
    /\ pages[p].kind = "Payment" /\ pages[p].pc = "fetching"
    /\ LET latest == LatestUnpaid(pages[p].user)
       IN pages' = [pages EXCEPT ![p] =
                       IF fetchFails
                       THEN [@ EXCEPT !.loading = FALSE, !.pc = "idle"]
                       ELSE IF latest = {}
                       THEN [NoPage EXCEPT !.kind = "BookConsultation", !.user = pages[p].user,
                                           !.pc = "idle"]
                       ELSE [@ EXCEPT !.banks = SelectBankAccounts(pages[p].user, "is_active = true"),
                                      !.list = [c \in latest |-> consultations[c]],
                                      !.loading = FALSE, !.pc = "idle"]]
    /\ UNCHANGED <<users, profiles, consultations, notifications, inflight, last, now,
                   bank_accounts, deleted>>

\* Payment.confirmPayment up to its await: with a consultation and a selected
\* bank, the update of payment_status and bank_account_id filtered on the
\* consultation's id.
confirmPayment(p, selectedBank) ==
    /\ pages[p].kind = "Payment" /\ View(p) = "content" /\ pages[p].pc = "idle"
    /\ pages[p].list # <<>>
    /\ selectedBank \in pages[p].banks
    /\ Cardinality(inflight) < MaxInflight
    /\ now < MaxClock
    /\ LET id == CHOOSE c \in DOMAIN pages[p].list : TRUE
           r == Request("update", pages[p].user, id,
                        [payment_status |-> "paid", bank_account_id |-> selectedBank],
                        now + 1, StatusOf(id))
       IN /\ inflight' = inflight \cup {r}
          /\ pages' = [pages EXCEPT ![p] = [@ EXCEPT !.sent = r, !.pc = "updating"]]
    /\ now' = now + 1
    /\ UNCHANGED <<users, profiles, consultations, notifications, last, bank_accounts, deleted>>

\* confirmPayment after the response: without an error paymentConfirmed is
\* set, with one the toast is shown.
confirmPayment_then(p) ==
    /\ pages[p].kind = "Payment" /\ pages[p].pc = "responded"
    /\ pages' = [pages EXCEPT ![p] =
                    [@ EXCEPT !.paymentConfirmed = (pages[p].sent.err = "none"), !.pc = "idle"]]
    /\ UNCHANGED <<users, profiles, consultations, notifications, inflight, last, now,
                   bank_accounts, deleted>>

\* The timeout of confirmPayment (or the Go to Dashboard button):
\* navigate('/dashboard').
confirmPayment_redirect(p) ==
    /\ pages[p].kind = "Payment" /\ View(p) = "Payment Confirmed" /\ pages[p].pc = "idle"
    /\ pages' = [pages EXCEPT ![p] = Mounted("Dashboard", pages[p].user, MissingRow)]
    /\ UNCHANGED <<users, profiles, consultations, notifications, inflight, last, now,
                   bank_accounts, deleted>>

\* Every action.  The specifications below restrict Next to the operations
\* and payloads a group of claims is about, which keeps each of them within
\* reach of an exhaustive check.
Next ==
    \/ \E u \in Ids : SignUp(u)
    \/ \E a \in Ids \cup {Anon}, t \in Ids, r \in RoleEnum : UpdateProfile(a, t, r)
    \/ \E a \in Ids \cup {Anon}, f \in FormData : BookConsultation(a, f)
    \/ \E a \in Ids \cup {Anon}, p \in RestInsertPayloads : InsertConsultation(a, p)
    \/ \E a \in Ids \cup {Anon}, t \in AllConsIds, p \in RestUpdatePayloads : IssueUpdate(a, t, p)
    \/ \E r \in inflight, f \in BOOLEAN : ExecuteUpdate(r, f)
    \/ \E a \in Ids \cup {Anon}, p \in NotificationPayloads : InsertNotification(a, p)
    \/ \E a \in Ids \cup {Anon}, t \in 1..MaxNotifs, p \in NotificationUpdatePayloads :
           UpdateNotification(a, t, p)
    \/ \E a \in Ids \cup {Anon}, p \in BankInsertPayloads : InsertBankAccount(a, p)
    \/ \E a \in Ids \cup {Anon}, t \in BankRowIds, p \in BankUpdatePayloads :
           UpdateBankAccount(a, t, p)
    \/ \E a \in Ids \cup {Anon}, t \in BankRowIds : DeleteBankAccount(a, t)
    \/ \E a \in Ids \cup {Anon}, t \in AllConsIds : DeleteConsultation(a, t)
    \/ \E u \in Ids : DeleteUser(u)
    \/ \E p \in PageIds, u \in Ids \cup {Anon} : OpenAdminDashboard(p, u)
    \/ \E p \in PageIds, f \in BOOLEAN : checkAdminAccess(p, f)
    \/ \E p \in PageIds, f \in BOOLEAN : fetchAdminData(p, f)
    \/ \E p \in PageIds, c \in AllConsIds, st \in {"approved", "declined"} :
          updateConsultationStatus(p, c, st)
    \/ \E p \in PageIds : updateConsultationStatus_then(p)
    \/ \E p \in PageIds, u \in Ids \cup {Anon} : OpenDashboard(p, u)
    \/ \E p \in PageIds, u \in Ids \cup {Anon} : OpenPayment(p, u)
    \/ \E p \in PageIds, f \in BOOLEAN : fetchUserData(p, f)
    \/ \E p \in PageIds, c \in AllConsIds : CompletePayment(p, c)
    \/ \E p \in PageIds, f \in BOOLEAN : fetchData(p, f)
    \/ \E p \in PageIds, b \in BankRowIds : confirmPayment(p, b)
    \/ \E p \in PageIds : confirmPayment_then(p)
    \/ \E p \in PageIds : confirmPayment_redirect(p)

SpecAll == Init /\ [][Next]_vars

\* The consultation lifecycle: accounts, bookings and the updates of
\* consultations, overlapping or not, sent by signed-up users.
NextLifecycle ==
    \/ \E u \in Ids : SignUp(u)
    \/ \E a \in Ids \cup {Anon}, f \in FormData : Booked(MaxCons) /\ BookConsultation(a, f)
    \/ \E a \in Ids \cup {Anon}, p \in InsertPayloads : Booked(MaxCons) /\ InsertConsultation(a, p)
    \/ \E a \in Ids, t \in ConsIds, p \in UpdatePayloads : IssueUpdate(a, t, p)
    \/ \E r \in inflight, f \in BOOLEAN : ExecuteUpdate(r, f)

Spec == Init /\ [][NextLifecycle]_vars

\* Access through the REST interface: accounts, profile updates, inserts
\* into both tables by anyone, and the updates of consultations that approve
\* or cancel.
AccessUpdatePayloads == [status : {"approved", "cancelled"}]

NextAccess ==
    \/ \E u \in Ids : SignUp(u)
    \/ \E a \in Ids \cup {Anon}, t \in Ids, r \in RoleEnum : UpdateProfile(a, t, r)
    \/ \E a \in Ids \cup {Anon}, f \in FormData : Booked(MaxCons) /\ BookConsultation(a, f)
    \/ \E a \in Ids \cup {Anon}, p \in InsertPayloads : Booked(MaxCons) /\ InsertConsultation(a, p)
    \/ \E a \in Ids \cup {Anon}, p \in NotificationPayloads : InsertNotification(a, p)
    \/ \E a \in Ids, t \in ConsIds, p \in AccessUpdatePayloads : IssueUpdate(a, t, p)
    \/ \E r \in inflight, f \in BOOLEAN : ExecuteUpdate(r, f)

SpecAccess == Init /\ [][NextAccess]_vars

\* Bookings: accounts and their roles, the booking form and the inserts into
\* consultations that any caller of the REST interface can send.
NextBooking ==
    \/ \E u \in Ids : SignUp(u)
    \/ \E a \in Ids \cup {Anon}, t \in Ids, r \in RoleEnum : UpdateProfile(a, t, r)
    \/ \E a \in Ids \cup {Anon}, f \in FormData : BookConsultation(a, f)
    \/ \E a \in Ids \cup {Anon}, p \in RestInsertPayloads : InsertConsultation(a, p)

SpecBooking == Init /\ [][NextBooking]_vars

\* The notifications: accounts and their roles, notifications inserted
\* through the REST interface, and the reads and updates of notifications.
NextNotifications ==
    \/ \E u \in Ids : SignUp(u)
    \/ \E a \in Ids \cup {Anon}, t \in Ids, r \in RoleEnum : UpdateProfile(a, t, r)
    \/ \E a \in Ids \cup {Anon}, p \in NotificationPayloads : InsertNotification(a, p)
    \/ \E a \in Ids \cup {Anon}, t \in 1..MaxNotifs, p \in NotificationUpdatePayloads :
           UpdateNotification(a, t, p)

SpecNotifications == Init /\ [][NextNotifications]_vars

\* The bank accounts: accounts and their roles, and the reads and writes of
\* bank_accounts through the REST interface.
NextBankAccounts ==
    \/ \E u \in Ids : SignUp(u)
    \/ \E a \in Ids \cup {Anon}, t \in Ids, r \in RoleEnum : UpdateProfile(a, t, r)
    \/ \E a \in Ids \cup {Anon}, p \in BankInsertPayloads : InsertBankAccount(a, p)
    \/ \E a \in Ids \cup {Anon}, t \in BankRowIds, p \in BankUpdatePayloads :
           UpdateBankAccount(a, t, p)
    \/ \E a \in Ids \cup {Anon}, t \in BankRowIds : DeleteBankAccount(a, t)

SpecBankAccounts == Init /\ [][NextBankAccounts]_vars

\* The gate of consultations: accounts, bookings, and the updates that
\* approve or cancel, sent with and without a session, before and after the
\* row they aim at exists.
NextGate ==
    \/ \E u \in Ids : SignUp(u)
    \/ \E a \in Ids \cup {Anon}, f \in FormData : Booked(MaxCons) /\ BookConsultation(a, f)
    \/ \E a \in Ids \cup {Anon}, t \in ConsIds, p \in AccessUpdatePayloads : IssueUpdate(a, t, p)
    \/ \E r \in inflight, f \in BOOLEAN : ExecuteUpdate(r, f)

SpecGate == Init /\ [][NextGate]_vars

\* The admin dashboard open in two tabs: accounts, bookings, and the page's
\* own requests.
NextAdmin ==
    \/ \E u \in Ids : SignUp(u)
    \/ \E a \in Ids \cup {Anon}, f \in FormData : Booked(MaxCons) /\ BookConsultation(a, f)
    \/ \E p \in PageIds, u \in Ids \cup {Anon} : OpenAdminDashboard(p, u)
    \/ \E p \in PageIds, f \in BOOLEAN : checkAdminAccess(p, f)
    \/ \E p \in PageIds, f \in BOOLEAN : fetchAdminData(p, f)
    \/ \E p \in PageIds, c \in ConsIds, st \in {"approved", "declined"} :
          updateConsultationStatus(p, c, st)
    \/ \E r \in inflight, f \in BOOLEAN : ExecuteUpdate(r, f)
    \/ \E p \in PageIds : updateConsultationStatus_then(p)

SpecAdmin == Init /\ [][NextAdmin]_vars

\* Every request a page awaits settles, with a result or with an error, and
\* the page's continuation then runs.
AdminFairness ==
    /\ \A p \in PageIds : WF_vars(\E f \in BOOLEAN : checkAdminAccess(p, f))
    /\ \A p \in PageIds : WF_vars(\E f \in BOOLEAN : fetchAdminData(p, f))
    /\ \A p \in PageIds : WF_vars(updateConsultationStatus_then(p))
    /\ WF_vars(\E r \in inflight, f \in BOOLEAN : ExecuteUpdate(r, f))

SpecAdminLive == SpecAdmin /\ AdminFairness

\* The owner's pages: accounts, bookings through the form, the Dashboard and
\* the Payment page with their own requests.
NextPayFlow ==
    \/ \E u \in Ids : SignUp(u)
    \/ \E a \in Ids \cup {Anon}, f \in FormData : BookConsultation(a, f)
    \/ \E p \in PageIds, u \in Ids \cup {Anon} : OpenDashboard(p, u)
    \/ \E p \in PageIds, u \in Ids \cup {Anon} : OpenPayment(p, u)
    \/ \E p \in PageIds, f \in BOOLEAN : fetchUserData(p, f)
    \/ \E p \in PageIds, c \in AllConsIds : CompletePayment(p, c)
    \/ \E p \in PageIds, f \in BOOLEAN : fetchData(p, f)
    \/ \E p \in PageIds, b \in BankRowIds : confirmPayment(p, b)
    \/ \E r \in inflight, f \in BOOLEAN : ExecuteUpdate(r, f)
    \/ \E p \in PageIds : confirmPayment_then(p)
    \/ \E p \in PageIds : confirmPayment_redirect(p)

SpecPayFlow == Init /\ [][NextPayFlow]_vars

\* Payments: accounts, bookings and the updates of payment_status.
NextPayment ==
    \/ \E u \in Ids : SignUp(u)
    \/ \E a \in Ids \cup {Anon}, f \in FormData : Booked(MaxCons) /\ BookConsultation(a, f)
    \/ \E a \in Ids, t \in ConsIds, p \in PaymentUpdatePayloads : IssueUpdate(a, t, p)
    \/ \E r \in inflight, f \in BOOLEAN : ExecuteUpdate(r, f)

SpecPayment == Init /\ [][NextPayment]_vars

\* Deletions: accounts created and deleted, bookings, the updates that
\* approve or cancel, and the deletes of consultations that any caller of
\* the REST interface can send.
NextDeletion ==
    \/ \E u \in Ids : SignUp(u)
    \/ \E a \in Ids \cup {Anon}, f \in FormData : Booked(MaxCons) /\ BookConsultation(a, f)
    \/ \E a \in Ids, t \in ConsIds, p \in AccessUpdatePayloads : IssueUpdate(a, t, p)
    \/ \E r \in inflight, f \in BOOLEAN : ExecuteUpdate(r, f)
    \/ \E a \in Ids \cup {Anon}, t \in ConsIds : DeleteConsultation(a, t)
    \/ \E u \in Ids : DeleteUser(u)

SpecDeletion == Init /\ [][NextDeletion]_vars

\* ----------------------------------------------------------------- claims
\* Vocabulary of the claims.
IsOwner(actor, row) == actor \in users /\ actor = row.user_id
IsAdmin(actor) == actor \in DOMAIN profiles /\ profiles[actor].role = "admin"

\* The step runs the UPDATE of request r.
Runs(r) == \E f \in BOOLEAN : ExecuteUpdate(r, f)

\* C1: a read of consultation C by actor A returns C if and only if A is C's
\* owner or A's current role is admin; any other actor gets nothing, and so
\* does a read of an id that has no row.
C1_ReadIffOwnerOrAdmin ==
    \A a \in Actors, c \in ConsIds :
        IF c \in DOMAIN consultations /\ (IsOwner(a, consultations[c]) \/ IsAdmin(a))
        THEN SelectConsultation(a, c) = {c}
        ELSE SelectConsultation(a, c) = {}

\* C1 witness: a consultation of u1, a plain user, that its owner and the
\* admin (not its owner) read and that a caller without a session does not.
C1_Witness ==
    \E c \in DOMAIN consultations :
        /\ consultations[c].user_id = "u1" /\ ~IsAdmin("u1") /\ IsAdmin("adm")
        /\ SelectConsultation("u1", c) = {c}
        /\ SelectConsultation("adm", c) = {c}
        /\ SelectConsultation(Anon, c) = {}

\* C1 witness of the other denial: a signed-up user who is neither owner nor
\* admin reads nothing.
C1_WitnessDenied ==
    \E c \in DOMAIN consultations, a \in users :
        ~IsOwner(a, consultations[c]) /\ ~IsAdmin(a) /\ SelectConsultation(a, c) = {}

\* The payload leaves the row one that the actor may still write and that
\* the constraints accept: it keeps the owner, or an admin names a user.
KeepsRowWritable(actor, old, payload) ==
    /\ "user_id" \in DOMAIN payload =>
          payload.user_id = old.user_id \/ (IsAdmin(actor) /\ payload.user_id \in users)
    /\ "status" \in DOMAIN payload => payload.status \in StatusEnum
    /\ "payment_status" \in DOMAIN payload => payload.payment_status \in PaymentEnum

\* C2: an update of consultation C by an actor who is neither its owner nor
\* an admin has zero effect: no field of C changes, updated_at included, no
\* notification is created and zero rows are reported.  An update by the
\* owner or by an admin is accepted: it affects the row, which then carries
\* the payload's columns and the new updated_at (unless the trigger's insert
\* raised an error).
C2_UpdateGate ==
    [][\A r \in inflight :
         Runs(r) /\ r.target \in DOMAIN consultations =>
           LET old == consultations[r.target]
           IN IF ~(IsOwner(r.actor, old) \/ IsAdmin(r.actor))
              THEN /\ consultations' = consultations
                   /\ notifications' = notifications
                   /\ last'.rows = {} /\ last'.err = "none"
              ELSE KeepsRowWritable(r.actor, old, r.payload) /\ last'.err # "trigger" =>
                   /\ last'.rows = {r.target} /\ last'.err = "none"
                   /\ consultations'[r.target] =
                        [Overlay(old, r.payload) EXCEPT !.updated_at = r.issuedAt]]_vars

\* C2 witness: the latest update, setting payment_status to paid, came from a
\* signed-up user who is neither the owner nor an admin, and affected no row:
\* the consultation is still unpaid.
C2_Witness ==
    /\ last.kind = "update" /\ last.target \in DOMAIN consultations
    /\ last.actor \in users /\ ~IsAdmin(last.actor)
    /\ ~IsOwner(last.actor, consultations[last.target])
    /\ "payment_status" \in DOMAIN last.payload
    /\ last.rows = {}
    /\ consultations[last.target].payment_status = "unpaid"

\* The status of row c changes in this step to approved or declined.
Decided(c) ==
    /\ c \in DOMAIN consultations /\ c \in DOMAIN consultations'
    /\ consultations'[c].status # consultations[c].status
    /\ consultations'[c].status \in {"approved", "declined"}

\* This step appends exactly one notification, of row c's owner and about c.
OneNotificationFor(c) ==
    /\ Len(notifications') = Len(notifications) + 1
    /\ SubSeq(notifications', 1, Len(notifications)) = notifications
    /\ notifications'[Len(notifications')].user_id = consultations'[c].user_id
    /\ notifications'[Len(notifications')].consultation_id = c

\* C3: an accepted update of consultation C creates exactly one notification,
\* owned by C's owner and referencing C, if and only if the new status is
\* approved or declined and differs from the status before the update;
\* otherwise (the same status written again included) it creates none.
C3_NotificationIffDecided ==
    [][\A r \in inflight :
         Runs(r) /\ last'.rows # {} =>
           IF consultations'[r.target].status \in {"approved", "declined"}
              /\ consultations'[r.target].status # consultations[r.target].status
           THEN OneNotificationFor(r.target)
           ELSE notifications' = notifications]_vars

\* C3 witness: approved was written over approved: the second update was
\* accepted and the consultation has the one notification of the first.
C3_Witness ==
    /\ last.kind = "update" /\ last.rows # {}
    /\ "status" \in DOMAIN last.payload /\ last.payload.status = "approved"
    /\ last.seen = "approved" /\ last.issuedAt = 2
    /\ consultations[last.target].status = "approved"
    /\ Len(notifications) = 1

\* C4: a status change to approved or declined is only ever performed by an
\* actor whose role is admin.
C4_OnlyAdminDecides ==
    [][\A r \in inflight : Runs(r) /\ Decided(r.target) => IsAdmin(r.actor)]_vars

\* C5: a profile has role admin only if its identity is the allow-listed
\* email; every other identity's role is user and stays user.
C5_AdminOnlyAllowListed ==
    \A u \in DOMAIN profiles : profiles[u].role = "admin" => Email(u) = AdminEmail

\* The body the claim gives a declined notification: the rejection message,
\* then 'Reason: ' and the notes when there are notes, the contact-support
\* instruction when admin_notes is NULL or ''.
ClaimedDeclinedBody(notes) ==
    IF notes = Null \/ notes = Some("")
    THEN Some(DeclinedMessage \o ContactSupport)
    ELSE Some(DeclinedMessage \o ReasonPrefix \o notes[1])

\* C6: when a consultation's status changes to declined, the body of the
\* notification created is the rejection message followed by 'Reason: ' and
\* admin_notes when admin_notes is non-empty, and by the contact-support
\* instruction when admin_notes is NULL or the empty string.
C6_DeclinedBody ==
    [][\A r \in inflight :
         Runs(r) /\ Decided(r.target) /\ consultations'[r.target].status = "declined" =>
           /\ Len(notifications') = Len(notifications) + 1
           /\ notifications'[Len(notifications')].message =
                ClaimedDeclinedBody(consultations'[r.target].admin_notes)]_vars

\* C7: a consultation created without an explicit amount stores the amount
\* of its consultation_type: 50 for video_call, 40 for phone_call, 30 for
\* chat.
C7_AmountByType ==
    [][\A a \in Ids \cup {Anon}, p \in InsertPayloads :
         /\ InsertConsultation(a, p)
         /\ "amount" \notin DOMAIN p
         /\ DOMAIN consultations' # DOMAIN consultations
         => \A c \in DOMAIN consultations' \ DOMAIN consultations :
              consultations'[c].amount = getConsultationTypeAmount(consultations'[c].consultation_type)]_vars

Approves(w) == "status" \in DOMAIN w.payload /\ w.payload.status = "approved"
Cancels(w) == "status" \in DOMAIN w.payload /\ w.payload.status = "cancelled"

\* r is the owner's cancellation and w the admin's approval (or the other way
\* round) of one consultation that both saw pending, and r was already open
\* when w ran.
Race(w, r) ==
    /\ w.kind = "update" /\ w.target = r.target /\ r.target \in DOMAIN consultations
    /\ w.seen = "pending" /\ r.seen = "pending"
    /\ r.issuedAt <= w.executedAt
    /\ \/ Approves(w) /\ IsAdmin(w.actor) /\ w.actor # consultations[r.target].user_id
          /\ Cancels(r) /\ IsOwner(r.actor, consultations[r.target]) /\ ~IsAdmin(r.actor)
       \/ Approves(r) /\ IsAdmin(r.actor) /\ r.actor # consultations[r.target].user_id
          /\ Cancels(w) /\ IsOwner(w.actor, consultations[r.target]) /\ ~IsAdmin(w.actor)

\* C8: of two concurrent updates of one pending consultation, approved by an
\* admin and cancelled by the owner, exactly one commits; one notification is
\* created if approved committed and none if cancelled did, so no approved
\* notification exists for a consultation the race left cancelled.
C8_OneWriterWins ==
    [][\A r \in inflight :
         Runs(r) /\ Race(last, r) =>
           /\ (last.rows # {}) # (last'.rows # {})
           /\ consultations'[r.target].status = "cancelled" =>
                \A i \in 1..Len(notifications') :
                    notifications'[i].consultation_id # r.target]_vars

\* C9: the status update and its notification are one atomic unit: in every
\* step, a consultation's status changes to approved or declined exactly
\* when one notification about it, with the title of that status, is
\* appended; and an update whose notification insert fails leaves every
\* field of the consultation (status, admin_notes, updated_at) and the
\* notifications as before.
C9_StatusAndNotificationAtomic ==
    [][/\ \A c \in DOMAIN consultations :
            Decided(c) =>
              /\ OneNotificationFor(c)
              /\ notifications'[Len(notifications')].title =
                   IF consultations'[c].status = "approved"
                   THEN Some("Consultation Approved U+2705")
                   ELSE Some("Consultation Declined U+274C")
       /\ notifications' # notifications => \E c \in DOMAIN consultations : Decided(c)
       /\ \A r \in inflight :
            Runs(r) /\ last'.err = "trigger" =>
              consultations' = consultations /\ notifications' = notifications]_vars

\* C9 witness: the notification insert of an approval or a decline failed,
\* and the consultation still has the status it had, with no notification.
C9_Witness ==
    /\ last.kind = "update" /\ last.err = "trigger" /\ last.rows = {}
    /\ last.seen = "pending"
    /\ consultations[last.target].status = "pending"
    /\ consultations[last.target].updated_at = 0
    /\ notifications = <<>>

\* C10: notifications are created only by the status-change emitter: every
\* step that adds a notification is an update that changes a consultation's
\* status to approved or declined, and adds exactly one, about that row.
C10_OnlyEmitterCreates ==
    [][notifications' # notifications =>
         \E r \in inflight :
            Runs(r) /\ Decided(r.target) /\ OneNotificationFor(r.target)]_vars

\* A's session is the one of notification n's user_id.
OwnsNotification(actor, n) == actor \in users /\ actor = n.user_id

\* The notification target is read by its owner and by nobody else.
C11_ReadGate ==
    \A a \in Actors, i \in 1..Len(notifications) :
        SelectNotification(a, i) = IF OwnsNotification(a, notifications[i]) THEN {i} ELSE {}

\* C11: a notification can be read, and updated (marked read), only by the
\* actor equal to its user_id: the owner's read returns it and the owner's
\* read mark is stored; an admin who is not the owner, like every other
\* actor, reads nothing and updates nothing, and the denied update leaves
\* is_read and every other field unchanged.
C11_NotificationOwnerOnly ==
    /\ []C11_ReadGate
    /\ [][\A a \in Ids \cup {Anon}, t \in 1..MaxNotifs, p \in NotificationUpdatePayloads :
            UpdateNotification(a, t, p) /\ t \in 1..Len(notifications) =>
              IF OwnsNotification(a, notifications[t])
              THEN DOMAIN p = {"is_read"} =>
                     /\ last'.rows = {t}
                     /\ notifications' = [notifications EXCEPT ![t].is_read = p.is_read]
              ELSE notifications' = notifications /\ last'.rows = {}]_vars

\* C11 witness: the admin, who does not own u1's unread notification, sent
\* the read mark: no row was affected, the notification is still unread and
\* the admin's read of it returns nothing.
C11_Witness ==
    /\ last.kind = "update_notification" /\ last.target \in 1..Len(notifications)
    /\ last.actor = "adm" /\ IsAdmin("adm")
    /\ notifications[last.target].user_id = "u1"
    /\ last.payload = [is_read |-> TRUE]
    /\ last.rows = {}
    /\ notifications[last.target].is_read = FALSE
    /\ SelectNotification("adm", last.target) = {}
    /\ SelectNotification("u1", last.target) = {last.target}

\* C12: a consultation is created by actor A only when the inserted row's
\* user_id equals A: every row an insert adds is owned by the session that
\* sent it; an insert naming another user as owner (or sent without a
\* session) is rejected by the policy and leaves the set of consultations
\* unchanged; and a booking attempt without a user sends no insert at all.
C12_CreateOnlyAsSelf ==
    [][/\ \A a \in Ids \cup {Anon}, p \in InsertPayloads :
            InsertConsultation(a, p) =>
              IF a \in users /\ p.user_id = a
              THEN \A c \in DOMAIN consultations' \ DOMAIN consultations :
                     consultations'[c].user_id = a /\ last'.rows = {c}
              ELSE /\ consultations' = consultations
                   /\ last'.kind = "insert" /\ last'.rows = {} /\ last'.err = "rls"
       /\ \A f \in FormData :
            BookConsultation(Anon, f) => consultations' = consultations /\ last' = last]_vars

\* C12 witness: the latest request was an insert by a signed-up user that
\* named the other signed-up user as owner; it was rejected and there is no
\* consultation.
C12_Witness ==
    /\ last.kind = "insert" /\ last.actor \in users
    /\ last.payload.user_id \in users /\ last.payload.user_id # last.actor
    /\ last.rows = {} /\ last.err = "rls"
    /\ DOMAIN consultations = {}

\* C13: a consultation's user_id never changes after creation: every step
\* leaves the user_id of every existing consultation as it was, whatever
\* accepted update its owner or an admin sends.
C13_OwnerImmutable ==
    [][\A c \in DOMAIN consultations :
         c \in DOMAIN consultations' /\ consultations'[c].user_id = consultations[c].user_id]_vars

\* C14: in every reachable state the amount of every consultation is
\* non-negative, whatever owners and admins write in creates and updates.
C14_AmountNonNegative ==
    \A c \in DOMAIN consultations : consultations[c].amount >= 0

\* The payload carries a status or a payment_status outside its enumeration.
OutOfEnum(payload) ==
    \/ "status" \in DOMAIN payload /\ payload.status \notin StatusEnum
    \/ "payment_status" \in DOMAIN payload /\ payload.payment_status \notin PaymentEnum

\* Every consultation has its status and payment_status in the enumerations.
C15_EnumsHold ==
    \A c \in DOMAIN consultations :
        /\ consultations[c].status \in {"pending", "approved", "declined", "completed", "cancelled"}
        /\ consultations[c].payment_status \in {"unpaid", "paid", "refunded"}

\* C15: in every reachable state every consultation has status in {pending,
\* approved, declined, completed, cancelled} and payment_status in {unpaid,
\* paid, refunded}; an update or a create that carries any other value
\* affects no row, and leaves every consultation and the notifications
\* unchanged.
C15_EnumsEnforced ==
    /\ []C15_EnumsHold
    /\ [][/\ \A r \in inflight :
                Runs(r) /\ OutOfEnum(r.payload) =>
                  /\ consultations' = consultations /\ notifications' = notifications
                  /\ last'.rows = {}
          /\ last' # last /\ last'.kind = "insert" /\ OutOfEnum(last'.payload) =>
                  /\ consultations' = consultations /\ notifications' = notifications
                  /\ last'.rows = {}]_vars

\* C15 witness: the owner sent status = 'archived' for a pending
\* consultation: the update ended in a constraint error and the consultation
\* is as it was created.
C15_Witness ==
    /\ last.kind = "update" /\ last.target \in DOMAIN consultations
    /\ IsOwner(last.actor, consultations[last.target])
    /\ last.payload = [status |-> "archived"]
    /\ last.err = "constraint" /\ last.rows = {}
    /\ consultations[last.target].status = "pending"
    /\ consultations[last.target].updated_at = 0

\* C16: for every consultation, updated_at strictly increases after any
\* accepted update (one that writes the same values again included) and is
\* unchanged after a rejected, zero-row update.
C16_UpdatedAtIncreases ==
    [][\A r \in inflight :
         Runs(r) /\ r.target \in DOMAIN consultations =>
           IF last'.rows # {}
           THEN consultations'[r.target].updated_at > consultations[r.target].updated_at
           ELSE consultations'[r.target].updated_at = consultations[r.target].updated_at]_vars

\* C17: a bank account with is_active = false is never returned to a
\* non-admin actor, whatever filter the read uses; an admin's read returns
\* the inactive accounts its filter matches, and every authenticated actor's
\* read returns every active account its filter matches (a caller without a
\* session, who is no admin, gets nothing).
C17_InactiveHiddenFromNonAdmins ==
    \A a \in Actors, f \in BankFilters :
        SelectBankAccounts(a, f) =
            {b \in DOMAIN bank_accounts :
                /\ Matches(f, bank_accounts[b])
                /\ IF bank_accounts[b].is_active THEN a \in users ELSE IsAdmin(a)}

\* C17 witness: there is an inactive and an active account; u1, a plain
\* user, reads only the active one, also when asking for the inactive ones;
\* the admin reads both.
C17_Witness ==
    \E i, b \in DOMAIN bank_accounts :
        /\ ~bank_accounts[i].is_active /\ bank_accounts[b].is_active
        /\ "u1" \in users /\ ~IsAdmin("u1") /\ IsAdmin("adm")
        /\ SelectBankAccounts("u1", "none") = {b}
        /\ SelectBankAccounts("u1", "is_active = false") = {}
        /\ SelectBankAccounts("adm", "none") = {i, b}
        /\ SelectBankAccounts(Anon, "is_active = true") = {}

\* The step is a write of bank_accounts sent by actor a.
WritesBankAccounts(a) ==
    \/ \E p \in BankInsertPayloads : InsertBankAccount(a, p)
    \/ \E t \in BankRowIds, p \in BankUpdatePayloads : UpdateBankAccount(a, t, p)
    \/ \E t \in BankRowIds : DeleteBankAccount(a, t)

\* C18: bank accounts are writable only by admins: an insert, update or
\* delete sent by an actor whose role is not admin affects no row and leaves
\* the set of bank accounts and every field of each account unchanged; the
\* accounts change only in a write sent by an admin.
C18_BankAccountsAdminOnly ==
    [][/\ \A a \in Ids \cup {Anon} :
            WritesBankAccounts(a) /\ ~IsAdmin(a) =>
              bank_accounts' = bank_accounts /\ last'.rows = {}
       /\ bank_accounts' # bank_accounts =>
            \E a \in Ids : IsAdmin(a) /\ WritesBankAccounts(a)]_vars

\* C18 witness: u1, a plain user, sent the delete of the seeded account: no
\* row was affected and the account is there, active, under its name.
C18_Witness ==
    /\ last.kind = "delete_bank_account" /\ last.actor = "u1"
    /\ "u1" \in users /\ ~IsAdmin("u1")
    /\ last.rows = {}
    /\ last.target \in DOMAIN bank_accounts
    /\ bank_accounts[last.target] = [bank_name |-> "Wells Fargo", is_active |-> TRUE]

\* C19: no notification is created by an accepted update whose new status
\* is completed, cancelled or pending, nor by an accepted update that sets
\* only payment_status and bank_account_id (confirm-payment), nor by the
\* creation of a consultation: the notifications are unchanged by all of
\* these.
C19_NoOtherNotification ==
    [][/\ \A r \in inflight :
            /\ Runs(r) /\ last'.rows # {}
            /\ \/ consultations'[r.target].status \in {"completed", "cancelled", "pending"}
               \/ DOMAIN r.payload = {"payment_status", "bank_account_id"}
            => notifications' = notifications
       /\ last' # last /\ last'.kind = "insert" => notifications' = notifications]_vars

\* C19 witness: the payment of an approved consultation was confirmed: the
\* update was accepted, the consultation is paid, and the only notification
\* is the one of the approval.
C19_Witness ==
    /\ last.kind = "update" /\ last.rows # {}
    /\ last.payload = [payment_status |-> "paid", bank_account_id |-> 1]
    /\ consultations[last.target].payment_status = "paid"
    /\ consultations[last.target].status = "approved"
    /\ Len(notifications) = 1

\* C19 witness of a status change that notifies nobody: a pending
\* consultation was cancelled and there is no notification.
C19_WitnessCancelled ==
    /\ last.kind = "update" /\ last.rows # {}
    /\ last.seen = "pending" /\ last.payload = [status |-> "cancelled"]
    /\ consultations[last.target].status = "cancelled"
    /\ notifications = <<>>

\* The step runs request r, which changes its consultation's status to
\* approved or declined, and the notification added last has this title
\* for approved, that one for declined, and the fixed body for approved.
DecidedWithTitles(r, approvedTitle, declinedTitle) ==
    Runs(r) /\ Decided(r.target) =>
      /\ Len(notifications') = Len(notifications) + 1
      /\ LET n == notifications'[Len(notifications')]
             approved == consultations'[r.target].status = "approved"
         IN /\ n.title = IF approved THEN Some(approvedTitle) ELSE Some(declinedTitle)
            /\ approved => n.message = Some(ApprovedMessage)

\* C20: the title of the notification created by a status change is exactly
\* 'Consultation Approved' when the new status is approved and exactly
\* 'Consultation Declined' when it is declined, and the approved body is one
\* fixed confirmation message independent of admin_notes.
C20_TitlesExact ==
    [][\A r \in inflight :
         DecidedWithTitles(r, "Consultation Approved", "Consultation Declined")]_vars

\* C20 as amended: the title is exactly 'Consultation Approved' followed by
\* a space and the check-mark emoji U+2705 when the new status is approved,
\* and exactly 'Consultation Declined' followed by a space and the
\* cross-mark emoji U+274C when it is declined; the approved body is one
\* fixed confirmation message independent of admin_notes.
C20_TitlesWithMark ==
    [][\A r \in inflight :
         DecidedWithTitles(r, "Consultation Approved U+2705", "Consultation Declined U+274C")]_vars

\* C20 witness: a consultation was approved with admin_notes written in the
\* same update; its notification has the approved title with its mark and
\* the fixed body, without the notes.
C20_Witness ==
    /\ last.kind = "update" /\ last.rows # {}
    /\ last.payload = [status |-> "approved", admin_notes |-> Some("schedule conflict")]
    /\ consultations[last.target].admin_notes = Some("schedule conflict")
    /\ Len(notifications) = 1
    /\ notifications[1].title = Some("Consultation Approved U+2705")
    /\ notifications[1].message = Some(ApprovedMessage)

\* An id that no consultation has.
MissingId == MaxBooked + 1

\* Actor a has no permission on the consultation of id c, which exists.
Denied(a, c) ==
    c \in DOMAIN consultations /\ ~IsOwner(a, consultations[c]) /\ ~IsAdmin(a)

\* C21: for an actor with no permission on a consultation, the observable
\* outcome of an update or a read aimed at the existing id is the outcome of
\* the same request aimed at an id that does not exist: zero rows affected
\* or returned and no error, and nothing stored changes.
C21_DeniedLikeNotFound ==
    [][\A r \in inflight :
         Runs(r) /\ Denied(r.actor, r.target) =>
           LET ghost == UpdateOutcome([r EXCEPT !.target = MissingId], FALSE)
           IN /\ last'.rows = ghost.rows /\ last'.err = ghost.err
              /\ last'.rows = {} /\ last'.err = "none"
              /\ consultations' = consultations /\ notifications' = notifications
              /\ SelectConsultation(r.actor, r.target) = SelectConsultation(r.actor, MissingId)
              /\ SelectConsultation(r.actor, r.target) = {}]_vars

\* C21 witness: two updates that differ in whether their target existed got
\* the same answer.  The latest update, by a caller with no permission on
\* the consultation it aimed at, was sent when the row existed and affected
\* zero rows without an error, as the update of an id without a row does.
C21_Witness ==
    /\ last.kind = "update" /\ Denied(last.actor, last.target)
    /\ last.seen = "pending"
    /\ last.rows = {} /\ last.err = "none"
    /\ last.rows = UpdateOutcome([last EXCEPT !.target = MissingId], FALSE).rows
    /\ consultations[last.target].status = "pending"
    /\ SelectConsultation(last.actor, last.target) = {}

\* C22: no consultation is ever deleted by an owner or an admin: a delete
\* of a consultation, whoever sends it, affects no row, and across every
\* step the set of consultation ids only grows, a consultation disappearing
\* only in the step that deletes its owning user account.
C22_NeverDeleted ==
    [][/\ \A a \in Ids \cup {Anon}, t \in ConsIds :
            DeleteConsultation(a, t) =>
              consultations' = consultations /\ notifications' = notifications
       /\ \A c \in DOMAIN consultations :
            c \notin DOMAIN consultations' =>
              consultations[c].user_id \in users /\ consultations[c].user_id \notin users']_vars

\* C22 witness: the owner sent the delete of their own consultation; no row
\* was affected and the consultation is there.
C22_Witness ==
    /\ last.kind = "delete_consultation" /\ last.target \in DOMAIN consultations
    /\ IsOwner(last.actor, consultations[last.target])
    /\ last.rows = {}

\* C22 witness of the cascade: a consultation went with its owner's account.
C22_WitnessCascade ==
    deleted.consultations # {} /\ deleted.users # {} /\ DOMAIN consultations = {}

\* C23: every consultation, immediately after its creation by its owner, has
\* status pending and payment_status unpaid, and its creation produces no
\* notification.
C23_CreatedPendingUnpaid ==
    [][\A c \in DOMAIN consultations' \ DOMAIN consultations :
          /\ consultations'[c].status = "pending"
          /\ consultations'[c].payment_status = "unpaid"
          /\ notifications' = notifications]_vars

\* C24: the only changes of payment_status are unpaid to paid, by the owner
\* and with a bank_account_id that is not null, and paid to refunded, by an
\* admin: it never returns to unpaid and an owner who is no admin never sets
\* refunded.
C24_PaymentTransitions ==
    [][\A c \in DOMAIN consultations \cap DOMAIN consultations' :
          LET old == consultations[c]
              new == consultations'[c]
          IN old.payment_status # new.payment_status =>
               \/ /\ old.payment_status = "unpaid" /\ new.payment_status = "paid"
                  /\ IsOwner(last'.actor, old)
                  /\ new.bank_account_id # NoBank
               \/ /\ old.payment_status = "paid" /\ new.payment_status = "refunded"
                  /\ IsAdmin(last'.actor)]_vars

\* C26: in every reachable state every notification's user_id is the current
\* user_id of the consultation it references, and its consultation_id refers
\* to an existing consultation.
C26_NotificationsFollowOwner ==
    \A i \in 1..Len(notifications) :
       /\ notifications[i].consultation_id \in DOMAIN consultations
       /\ notifications[i].user_id = consultations[notifications[i].consultation_id].user_id

\* C25: through the application's own actions, once a consultation's stored
\* status is declined, completed or cancelled it never changes again, also
\* when the admin dashboard is open in two sessions and one acts on a list
\* loaded before the other's decision was written.
C25_TerminalStays ==
    [][\A c \in DOMAIN consultations \cap DOMAIN consultations' :
          consultations[c].status \in {"declined", "completed", "cancelled"} =>
            consultations'[c].status = consultations[c].status]_vars

AdminPage(p) == pages[p].kind = "AdminDashboard"

\* C30: in the admin dashboard isAdmin becomes true, and the list is fetched,
\* only after the user's profile was read with role admin; for a user whose
\* role is not admin, or whose profile read fails, isAdmin stays false, no
\* fetch of consultations and no update of a status is issued, and loading
\* eventually becomes false.
C30_AdminGate ==
    /\ [](\A p \in PageIds :
            AdminPage(p) =>
              /\ pages[p].isAdmin => IsAdmin(pages[p].user)
              /\ ~pages[p].isAdmin =>
                    /\ pages[p].list = <<>> /\ pages[p].sent = NoRequest
                    /\ pages[p].pc \in {"checking", "idle"})
    /\ [](\A r \in inflight : IsAdmin(r.actor))
    /\ [][\A p \in PageIds :
            /\ pages'[p].isAdmin /\ ~pages[p].isAdmin =>
                  checkAdminAccess(p, FALSE) /\ IsAdmin(pages[p].user)
            /\ pages'[p].list # pages[p].list => pages[p].isAdmin]_vars
    /\ \A p \in PageIds :
          (AdminPage(p) /\ pages[p].user # Anon) ~> (AdminPage(p) /\ ~pages[p].loading)

\* C30 witness: one tab where an admin's dashboard has loaded the list, and
\* one where a user who is no admin was refused: isAdmin false, nothing
\* fetched, loading false.
C30_Witness ==
    \E p, q \in PageIds :
       /\ AdminPage(p) /\ IsAdmin(pages[p].user)
       /\ pages[p].isAdmin /\ ~pages[p].loading /\ pages[p].list # <<>>
       /\ AdminPage(q) /\ pages[q].user \in users /\ ~IsAdmin(pages[q].user)
       /\ ~pages[q].isAdmin /\ ~pages[q].loading /\ pages[q].pc = "idle"
       /\ pages[q].list = <<>>

\* C27: a visitor with no authenticated user who opens the Dashboard or the
\* Payment page is shown the 'Authentication Required' view once the page
\* has nothing under way (loading, true at first, has become false), also
\* on the path where user is null and no fetch is started.
C27_AuthRequiredShown ==
    \A p \in PageIds :
       /\ pages[p].kind \in {"Dashboard", "Payment"}
       /\ pages[p].user = Anon
       /\ pages[p].pc = "idle"
       => View(p) = "Authentication Required"

\* C28: when an owner with more than one unpaid consultation chose Complete
\* Payment on one of them and confirms on the Payment page, the consultation
\* that becomes paid is the chosen one, it is pending, and no other
\* consultation is modified.
C28_PaysTheChosen ==
    [][\A p \in PageIds :
          /\ pages[p].kind = "Payment" /\ pages[p].chosen # MissingRow
          /\ pages[p].pc = "updating" /\ pages'[p].pc = "responded"
          /\ Cardinality({c \in DOMAIN consultations :
                             /\ consultations[c].user_id = pages[p].user
                             /\ consultations[c].payment_status = "unpaid"}) > 1
          => \A c \in DOMAIN consultations :
                consultations'[c] # consultations[c] =>
                  c = pages[p].chosen /\ consultations[c].status = "pending"]_vars

\* C29: the amount the Payment page tells the owner to transfer is the amount
\* stored on the consultation (so that the revenue of the admin dashboard,
\* the sum of the stored amounts of the paid consultations, is the sum of
\* the amounts owners were told to pay).
C29_DisplayedIsStored ==
    \A p \in PageIds :
       pages[p].kind = "Payment" /\ View(p) = "content" =>
         \A c \in DOMAIN pages[p].list \cap DOMAIN consultations :
            getConsultationTypeAmount(pages[p].list[c].consultation_type) = consultations[c].amount

====
